---- MODULE Spec2Model ----
(***************************************************************************)
(* Model of validation21: the Validator contract (is_empty, to_python,     *)
(* from_python), its concrete converters and the error aggregation of      *)
(* exception.py.                                                           *)
(*                                                                         *)
(* Python values are tagged records: None, text, int, float, Decimal,     *)
(* bool.  A text is a sequence of one-character strings.  A float or a     *)
(* decimal.Decimal is a sign, an integral part and a fractional part (in   *)
(* thousandths for a float, in 10^-scale units for a Decimal), or an       *)
(* infinity.  The outcome of a call is Return(v) or Raise(exc, msg).       *)
(***************************************************************************)
EXTENDS Integers, Sequences, FiniteSets, TLC

(***************************************************************************)
(* Bounds of the model.                                                    *)
(***************************************************************************)
\* numbers of up to MaxDigits integral digits are parsed and rendered
MaxDigits == 7
\* every integer magnitude 0..MaxSmall is an input
MaxSmall == 11
\* texts of a Unicode converter are runs of up to MaxRun characters
MaxRun == 4
\* a caller goes on with a returned value at most MaxChain times in a row
MaxChain == 2
\* a caller makes at most MaxCalls calls on one error collection
MaxCalls == 2
\* a caller resolves the warnings of one collection at most MaxResolves times
MaxResolves == 2
\* a thread calls register_overrides at most MaxRegs times
MaxRegs == 2

(***************************************************************************)
(* Python values and call outcomes.                                        *)
(***************************************************************************)
NoneV == [t |-> "none"]
StrV(s) == [t |-> "str", s |-> s]
IntV(n) == [t |-> "int", n |-> n]
BoolV(b) == [t |-> "bool", b |-> b]
\* a finite float +-(ip + mil/1000)
Float(neg, ip, mil) == [t |-> "float", kind |-> "fin", neg |-> neg, ip |-> ip, fr |-> mil, scale |-> 3]
FloatInf(neg) == [t |-> "float", kind |-> "inf", neg |-> neg, ip |-> 0, fr |-> 0, scale |-> 3]
\* a finite decimal.Decimal +-(ip + fr/10^scale) with `scale` fractional digits
Dec(neg, ip, fr, scale) == [t |-> "dec", kind |-> "fin", neg |-> neg, ip |-> ip, fr |-> fr, scale |-> scale]
DecInf(neg) == [t |-> "dec", kind |-> "inf", neg |-> neg, ip |-> 0, fr |-> 0, scale |-> 0]

Return(v) == [k |-> "return", v |-> v, exc |-> "", msg |-> ""]
Raise(exc, msg) == [k |-> "raise", v |-> NoneV, exc |-> exc, msg |-> msg]
IsReturn(o) == o.k = "return"
IsRaise(o) == o.k = "raise"

IsStr(v) == v.t = "str"
IsNum(v) == v.t \in {"int", "float", "dec", "bool"}

(***************************************************************************)
(* Text primitives of Python: slicing, strip, replace, find.               *)
(***************************************************************************)
DigitChars == <<"0", "1", "2", "3", "4", "5", "6", "7", "8", "9">>
DigitSet == {DigitChars[i] : i \in 1..10}
IsDigit(c) == c \in DigitSet
DigitVal(c) == CHOOSE d \in 0..9 : DigitChars[d + 1] = c
AllDigits(s) == \A i \in 1..Len(s) : IsDigit(s[i])

Min2(a, b) == IF a < b THEN a ELSE b
Max2(a, b) == IF a > b THEN a ELSE b

\* s[a:b] with 0-based, non-negative, clamped indices
Slice(s, a, b) == SubSeq(s, Min2(a, Len(s)) + 1, Min2(b, Len(s)))
\* s[a:]
From(s, a) == Slice(s, a, Len(s))
\* s[:-n] and s[-n:]
DropLast(s, n) == Slice(s, 0, Max2(Len(s) - n, 0))
Last(s, n) == From(s, Max2(Len(s) - n, 0))

IsSpace(c) == c = " "
RECURSIVE LStrip(_)
LStrip(s) == IF s # <<>> /\ IsSpace(s[1]) THEN LStrip(Tail(s)) ELSE s
RECURSIVE RStrip(_)
RStrip(s) == IF s # <<>> /\ IsSpace(s[Len(s)]) THEN RStrip(DropLast(s, 1)) ELSE s
\* s.strip()
Strip(s) == RStrip(LStrip(s))
\* s.replace(c, '')
Remove(s, c) == SelectSeq(s, LAMBDA x : x # c)
\* s.rfind(c): the 0-based index of the last c, or -1
RFind(s, c) == IF \E i \in 1..Len(s) : s[i] = c
               THEN (CHOOSE i \in 1..Len(s) : s[i] = c /\ \A j \in (i + 1)..Len(s) : s[j] # c) - 1
               ELSE -1
StartsWith(s, p) == Len(s) >= Len(p) /\ SubSeq(s, 1, Len(p)) = p
EndsWith(s, p) == Len(s) >= Len(p) /\ Last(s, Len(p)) = p

RECURSIVE Pow10(_)
Pow10(k) == IF k <= 0 THEN 1 ELSE 10 * Pow10(k - 1)

RECURSIVE StrToNat(_)
StrToNat(s) == IF s = <<>> THEN 0
               ELSE StrToNat(DropLast(s, 1)) * 10 + DigitVal(s[Len(s)])
RECURSIVE NatToStr(_)
NatToStr(n) == IF n < 10 THEN <<DigitChars[n + 1]>>
               ELSE NatToStr(n \div 10) \o <<DigitChars[(n % 10) + 1]>>
\* n as `width` digits, zero padded on the left
RECURSIVE PadNat(_, _)
PadNat(n, width) == IF width <= 0 THEN <<>>
                    ELSE PadNat(n \div 10, width - 1) \o <<DigitChars[(n % 10) + 1]>>
\* str(n) of an int
IntToStr(n) == IF n < 0 THEN <<"-">> \o NatToStr(-n) ELSE NatToStr(n)

(***************************************************************************)
(* Numbers: int(), float(), the '%0.<scale>f' formatting into a Decimal,   *)
(* str() of a Decimal and the comparison of numbers.                       *)
(***************************************************************************)
HasSign(s) == s # <<>> /\ s[1] \in {"+", "-"}
Unsigned(s) == IF HasSign(s) THEN Tail(s) ELSE s
IsNegText(s) == s # <<>> /\ s[1] = "-"

\* int(s) of a text: surrounding whitespace, a sign and one or more digits
PyIntOfText(s) ==
    LET u == Strip(s)
        d == Unsigned(u)
    IN  IF d # <<>> /\ AllDigits(d)
        THEN Return(IntV(IF IsNegText(u) THEN -StrToNat(d) ELSE StrToNat(d)))
        ELSE Raise("ValueError", "invalid literal for int()")

\* int(v): texts are parsed, floats and Decimals are truncated towards zero
PyInt(v) ==
    CASE v.t = "str" -> PyIntOfText(v.s)
      [] v.t = "int" -> Return(v)
      [] v.t = "bool" -> Return(IntV(IF v.b THEN 1 ELSE 0))
      [] v.t \in {"float", "dec"} ->
            IF v.kind = "inf" THEN Raise("OverflowError", "cannot convert float infinity to integer")
            ELSE Return(IntV(IF v.neg THEN -v.ip ELSE v.ip))
      [] OTHER -> Raise("TypeError", "int() argument must be a string or a number")

\* the fractional digits f of a literal, in thousandths: the literals of the
\* model have at most three fractional digits, which a double holds exactly
\* enough for every formatting below; further digits are dropped
FracMil(f) == StrToNat(Slice(f, 0, 3)) * Pow10(3 - Min2(Len(f), 3))

\* float(s) of a text: whitespace, a sign, then "inf" or digits[.digits]
\* with a digit on at least one side of the point
PyFloatOfText(s) ==
    LET u == Strip(s)
        neg == IsNegText(u)
        d == Unsigned(u)
        p == RFind(d, ".")
        ipart == IF p < 0 THEN d ELSE Slice(d, 0, p)
        fpart == IF p < 0 THEN <<>> ELSE From(d, p + 1)
    IN  IF d = <<"i", "n", "f">> THEN Return(FloatInf(neg))
        ELSE IF AllDigits(ipart) /\ AllDigits(fpart) /\ Len(ipart) + Len(fpart) > 0
        THEN Return(Float(neg, StrToNat(ipart), FracMil(fpart)))
        ELSE Raise("ValueError", "could not convert string to float")

\* float(v)
PyFloat(v) ==
    CASE v.t = "str" -> PyFloatOfText(v.s)
      [] v.t = "int" -> Return(Float(v.n < 0, IF v.n < 0 THEN -v.n ELSE v.n, 0))
      [] v.t = "bool" -> Return(Float(FALSE, IF v.b THEN 1 ELSE 0, 0))
      [] v.t = "float" -> Return(v)
      [] v.t = "dec" -> Return(IF v.kind = "inf" THEN FloatInf(v.neg)
                               ELSE Float(v.neg, v.ip, v.fr * Pow10(3 - v.scale)))
      [] OTHER -> Raise("TypeError", "float() argument must be a string or a number")

\* fr units of 10^-from rounded to units of 10^-to (to <= from); half:
\* what a tie does ("even", "up" or "down"); the result may equal 10^to
\* (a carry into the integral part)
RoundFrac(fr, from, to, half) ==
    LET q == Pow10(from - to)
        lo == fr \div q
        rem == fr % q
    IN  IF from <= to THEN fr * Pow10(to - from)
        ELSE IF 2 * rem > q THEN lo + 1
        ELSE IF 2 * rem < q THEN lo
        ELSE CASE half = "up" -> lo + 1
               [] half = "down" -> lo
               [] OTHER -> IF lo % 2 = 0 THEN lo ELSE lo + 1

\* a finite number rounded to `scale` fractional digits, as a Decimal
Rescale(x, scale, half) ==
    LET r == RoundFrac(x.fr, x.scale, scale, half)
        carry == r = Pow10(scale) /\ x.scale > scale
    IN  IF carry THEN Dec(x.neg, x.ip + 1, 0, scale) ELSE Dec(x.neg, x.ip, r, scale)

\* decimal.Decimal(('%%0.%df' % scale) % f) of a float f
FloatToDec(f, scale) ==
    IF f.kind = "inf" THEN DecInf(f.neg) ELSE Rescale(f, scale, "even")

\* unicode(d) of a Decimal
DecToStr(d) ==
    IF d.kind = "inf" THEN (IF d.neg THEN <<"-">> ELSE <<>>) \o <<"I", "n", "f", "i", "n", "i", "t", "y">>
    ELSE (IF d.neg THEN <<"-">> ELSE <<>>) \o NatToStr(d.ip)
         \o (IF d.scale > 0 THEN <<".">> \o PadNat(d.fr, d.scale) ELSE <<>>)

\* the numeric view of an int, a float or a Decimal
AsNum(v) == IF v.t = "int"
            THEN [kind |-> "fin", neg |-> v.n < 0, ip |-> IF v.n < 0 THEN -v.n ELSE v.n, fr |-> 0, scale |-> 0]
            ELSE [kind |-> v.kind, neg |-> v.neg, ip |-> v.ip, fr |-> v.fr, scale |-> v.scale]
NumIsZero(x) == x.kind = "fin" /\ x.ip = 0 /\ x.fr = 0
MagLT(x, y) == IF x.kind = "inf" THEN FALSE
               ELSE IF y.kind = "inf" THEN TRUE
               ELSE x.ip < y.ip \/ (x.ip = y.ip /\ x.fr * Pow10(3 - x.scale) < y.fr * Pow10(3 - y.scale))
\* a < b of two numbers
NumLT(a, b) ==
    LET x == AsNum(a)
        y == AsNum(b)
    IN  IF NumIsZero(x) /\ NumIsZero(y) THEN FALSE
        ELSE IF x.neg /\ ~NumIsZero(x)
             THEN (IF y.neg /\ ~NumIsZero(y) THEN MagLT(y, x) ELSE TRUE)
             ELSE (IF y.neg /\ ~NumIsZero(y) THEN FALSE ELSE MagLT(x, y))
NumLE(a, b) == ~NumLT(b, a)
\* a == b of two numbers
NumEq(a, b) == ~NumLT(a, b) /\ ~NumLT(b, a)

\* str(f) of a float: the shortest digits, at least one after the point
RECURSIVE StripZeros(_)
StripZeros(s) == IF Len(s) > 1 /\ s[Len(s)] = "0" THEN StripZeros(DropLast(s, 1)) ELSE s
FloatToStr(f) ==
    IF f.kind = "inf" THEN (IF f.neg THEN <<"-">> ELSE <<>>) \o <<"i", "n", "f">>
    ELSE (IF f.neg THEN <<"-">> ELSE <<>>) \o NatToStr(f.ip) \o <<".">> \o StripZeros(PadNat(f.fr, 3))
\* '%f' % f of a float: six fractional digits
FloatToFixed6(f) ==
    IF f.kind = "inf" THEN (IF f.neg THEN <<"-">> ELSE <<>>) \o <<"i", "n", "f">>
    ELSE (IF f.neg THEN <<"-">> ELSE <<>>) \o NatToStr(f.ip) \o <<".">> \o PadNat(f.fr, 3) \o <<"0", "0", "0">>

\* unicode(v) / str(v) of a value
PyUnicode(v) ==
    CASE v.t = "str" -> v.s
      [] v.t = "int" -> IntToStr(v.n)
      [] v.t = "float" -> FloatToStr(v)
      [] v.t = "dec" -> DecToStr(v)
      [] v.t = "bool" -> IF v.b THEN <<"T", "r", "u", "e">> ELSE <<"F", "a", "l", "s", "e">>
      [] OTHER -> <<"N", "o", "n", "e">>

\* bool(v)
PyTruth(v) ==
    CASE v.t = "str" -> v.s # <<>>
      [] v.t = "int" -> v.n # 0
      [] v.t \in {"float", "dec"} -> ~NumIsZero(AsNum(v))
      [] v.t = "bool" -> v.b
      [] OTHER -> FALSE

(***************************************************************************)
(* split_thousands(s, t_sep=',', d_sep='.')                                *)
(***************************************************************************)
NumChars == DigitSet \cup {"."}
\* the loop of lines 24-25: the index of the first character in num_chars
RECURSIVE FirstNumChar(_, _)
FirstNumChar(s, cnt) ==
    IF cnt < Len(s) /\ s[cnt + 1] \notin NumChars THEN FirstNumChar(s, cnt + 1) ELSE cnt
\* the loop of lines 41-43
RECURSIVE GroupLoop(_, _)
GroupLoop(s, splt) ==
    IF s # <<>> THEN GroupLoop(DropLast(s, 3), Last(s, 3) \o <<",">> \o splt) ELSE splt

\* split_thousands that groups from the left
split_thousands_from_left(s0) ==
    LET cnt0 == FirstNumChar(s0, 0)
        lhs == Slice(s0, 0, cnt0)
        s1 == From(s0, cnt0)
        cnt == RFind(s1, ".")
        rhs == IF cnt > 0 THEN <<".">> \o From(s1, cnt + 1) ELSE <<>>
        s2 == IF cnt > 0 THEN Slice(s1, 0, cnt) ELSE s1
        F[s \in Seq(NumChars)] == IF Len(s) <= 3 THEN s ELSE Slice(s, 0, 3) \o <<",">> \o F[From(s, 3)]
    IN  lhs \o F[s2] \o rhs

split_thousands_text(s0) ==
    LET cnt0 == FirstNumChar(s0, 0)
        lhs == Slice(s0, 0, cnt0)
        s1 == From(s0, cnt0)
        cnt == RFind(s1, ".")
        rhs == IF cnt > 0 THEN <<".">> \o From(s1, cnt + 1) ELSE <<>>
        s2 == IF cnt > 0 THEN Slice(s1, 0, cnt) ELSE s1
        splt == GroupLoop(s2, <<>>)
    IN  lhs \o DropLast(splt, 1) \o rhs

split_thousands(v) ==
    IF v = NoneV THEN IntV(0) ELSE StrV(split_thousands_text(PyUnicode(v)))

(***************************************************************************)
(* Validator instances.  An instance is the record of its class and its    *)
(* attributes (None for an attribute its class does not set).              *)
(***************************************************************************)
Validator(cls) ==
    [cls |-> cls, min |-> NoneV, max |-> NoneV, rounding |-> "", scale |-> 0,
     min_length |-> NoneV, max_length |-> NoneV, truncate |-> FALSE, choices |-> NoneV]
Integer(min, max) == [Validator("Integer") EXCEPT !.min = min, !.max = max]
Decimal(min, max, rounding, scale) ==
    [Validator("Decimal") EXCEPT !.min = min, !.max = max, !.rounding = rounding, !.scale = scale]
Currency(min, max, rounding, scale) == [Decimal(min, max, rounding, scale) EXCEPT !.cls = "Currency"]
Percentage(min, max, rounding, scale) == [Decimal(min, max, rounding, scale) EXCEPT !.cls = "Percentage"]
Unicode(min_length, max_length, truncate) ==
    [Validator("Unicode") EXCEPT !.min_length = min_length, !.max_length = max_length, !.truncate = truncate]
Enum(choices, max_length, truncate) ==
    [Unicode(NoneV, max_length, truncate) EXCEPT !.cls = "Enum", !.choices = choices]
Boolean == Validator("Boolean")
Type(choices, min, max) == [Integer(min, max) EXCEPT !.cls = "Type", !.choices = choices]
PhoneNumber(max_length, truncate) == [Unicode(NoneV, max_length, truncate) EXCEPT !.cls = "PhoneNumber"]
ObjectID(min, max) == [Integer(min, max) EXCEPT !.cls = "ObjectID"]
ZipCode5(max_length, truncate) == [Unicode(NoneV, max_length, truncate) EXCEPT !.cls = "ZipCode5"]
ZipCodeExt(max_length, truncate) == [Unicode(NoneV, max_length, truncate) EXCEPT !.cls = "ZipCodeExt"]
PhoneExt(max_length, truncate) == [Unicode(NoneV, max_length, truncate) EXCEPT !.cls = "PhoneExt"]

\* choices: a list of values, a list of (value, label) pairs
ChoiceList(items) == [t |-> "list", form |-> "values", items |-> items]
ChoicePairs(items) == [t |-> "list", form |-> "pairs", items |-> items]
SeqRange(s) == {s[i] : i \in 1..Len(s)}

IntegerClasses == {"Integer", "Type", "ObjectID"}
DecimalClasses == {"Decimal", "Currency", "Percentage"}
UnicodeClasses == {"Unicode", "Enum", "PhoneNumber", "ZipCode5", "ZipCodeExt", "PhoneExt", "Email"}

(***************************************************************************)
(* Validator.is_empty and its overrides                                    *)
(***************************************************************************)
Validator_is_empty(self, value) ==
    value = NoneV \/ (IsStr(value) /\ Strip(value.s) = <<>>)

Currency_is_empty(self, value) ==
    IF value = NoneV THEN TRUE
    ELSE LET v == Strip(PyUnicode(value)) IN v = <<>> \/ v = <<"$">>

\* Unicode._to_python: the text of any value
Unicode_to_python(self, value) == Return(StrV(PyUnicode(value)))

\* the end of the run of non-digits that starts at (1-based) position p
RECURSIVE SkipNonDigits(_, _)
SkipNonDigits(s, p) == IF p <= Len(s) /\ ~IsDigit(s[p]) THEN SkipNonDigits(s, p + 1) ELSE p
\* n digits at position p
DigitsAt(s, p, n) == p + n - 1 <= Len(s) /\ \A i \in p..(p + n - 1) : IsDigit(s[i])
ZerosAt(s, p, n) == p + n - 1 <= Len(s) /\ \A i \in p..(p + n - 1) : s[i] = "0"

\* _phonezeroRE.search(s): 000, 000 and 0000 with non-digits between, at the end
PhoneZeroAt(s, p) ==
    /\ ZerosAt(s, p, 3)
    /\ LET b == SkipNonDigits(s, p + 3)
       IN  /\ ZerosAt(s, b, 3)
           /\ LET c == SkipNonDigits(s, b + 3)
              IN  ZerosAt(s, c, 4) /\ c + 4 = Len(s) + 1
phonezeroRE_search(s) == \E p \in 1..Len(s) : PhoneZeroAt(s, p)

PhoneNumber_is_empty(self, value) ==
    LET text == PyUnicode(IF PyTruth(value) THEN value ELSE StrV(<<>>))
    IN  IF phonezeroRE_search(text) THEN TRUE
        ELSE Validator_is_empty(self, StrV(text))

is_empty(self, value) ==
    CASE self.cls = "Currency" -> Currency_is_empty(self, value)
      [] self.cls = "PhoneNumber" -> PhoneNumber_is_empty(self, value)
      [] OTHER -> Validator_is_empty(self, value)

(***************************************************************************)
(* Numeric family                                                          *)
(***************************************************************************)
StripCommas(value) == IF IsStr(value) THEN StrV(Remove(value.s, ",")) ELSE value

\* Integer._to_python with an exclusive upper bound
Integer_to_python_exclusive_max(self, value) ==
    LET r == PyInt(StripCommas(value))
    IN  IF IsRaise(r)
        THEN (IF r.exc = "ValueError"
              THEN Raise("ValidationException", "Please enter an integer - [%s]")
              ELSE r)
        ELSE IF self.min # NoneV /\ NumLT(r.v, self.min)
        THEN Raise("ValidationException", "Values must not be less than %d")
        ELSE IF self.max # NoneV /\ NumLE(self.max, r.v)
        THEN Raise("ValidationException", "Value must not be greater than %d")
        ELSE r

Integer_to_python(self, value) ==
    LET r == PyInt(StripCommas(value))
    IN  IF IsRaise(r)
        THEN (IF r.exc = "ValueError"
              THEN Raise("ValidationException", "Please enter an integer - [%s]")
              ELSE r)
        ELSE IF self.min # NoneV /\ NumLT(r.v, self.min)
        THEN Raise("ValidationException", "Values must not be less than %d")
        ELSE IF self.max # NoneV /\ NumLT(self.max, r.v)
        THEN Raise("ValidationException", "Value must not be greater than %d")
        ELSE r

\* decimal.Decimal(str(bound)) of a configured bound
BoundToDec(b) == IF b.t = "int" THEN Dec(b.n < 0, IF b.n < 0 THEN -b.n ELSE b.n, 0, 0)
                 ELSE Dec(b.neg, b.ip, b.fr, b.scale)

Decimal_to_python(self, value) ==
    LET f == IF value.t = "float" THEN Return(value) ELSE PyFloat(StripCommas(value))
    IN  IF IsRaise(f)
        THEN (IF f.exc = "ValueError"
              THEN Raise("ValidationException", "Please enter a number - [%s]")
              ELSE f)
        ELSE LET d == FloatToDec(f.v, self.scale)
             IN  IF self.min # NoneV /\ NumLT(d, BoundToDec(self.min))
                 THEN Raise("ValidationException", "Value must not be less than %d")
                 ELSE IF self.max # NoneV /\ NumLT(BoundToDec(self.max), d)
                 THEN Raise("ValidationException", "Value must not be greater than %d")
                 ELSE Return(d)

\* _currency: ^(sign1)?\$?(sign2)?(digits)(cents)?$ matched left to right;
\* every part is greedy and no shorter choice of a part lets the rest match
\* the end of the run of digits that starts at position p
RECURSIVE SkipDigits(_, _)
SkipDigits(s, p) == IF p <= Len(s) /\ IsDigit(s[p]) THEN SkipDigits(s, p + 1) ELSE p
\* the end of the run of ",ddd" groups that starts at position p
RECURSIVE SkipGroups(_, _)
SkipGroups(s, p) ==
    IF p <= Len(s) /\ s[p] = "," /\ DigitsAt(s, p + 1, 3) THEN SkipGroups(s, p + 4) ELSE p
SignAt(s, p) == p <= Len(s) /\ s[p] \in {"+", "-"}
currency_search(s) ==
    LET p1 == IF SignAt(s, 1) THEN 2 ELSE 1
        sign1 == SubSeq(s, 1, p1 - 1)
        p2 == IF p1 <= Len(s) /\ s[p1] = "$" THEN p1 + 1 ELSE p1
        p3 == IF SignAt(s, p2) THEN p2 + 1 ELSE p2
        sign2 == SubSeq(s, p2, p3 - 1)
        p4 == SkipGroups(s, SkipDigits(s, p3))
        digits == SubSeq(s, p3, p4 - 1)
        p5 == IF p4 <= Len(s) /\ s[p4] = "." /\ DigitsAt(s, p4 + 1, 1)
              THEN (IF DigitsAt(s, p4 + 1, 2) THEN p4 + 3 ELSE p4 + 2)
              ELSE p4
        cents == SubSeq(s, p4, p5 - 1)
    IN  [match |-> p5 = Len(s) + 1, sign1 |-> sign1, sign2 |-> sign2, digits |-> digits, cents |-> cents]

\* Currency._to_python with the sign before the '$' taking precedence
Currency_to_python_sign1_first(self, value) ==
    IF IsStr(value)
    THEN LET d == currency_search(value.s)
             sign == IF d.sign1 # <<>> THEN d.sign1 ELSE d.sign2
         IN  IF ~d.match
             THEN Raise("ValidationException", "Please enter a number - [%s]")
             ELSE IF d.digits = <<>> /\ d.cents = <<>>
             THEN Raise("ValidationException", "Please enter a number - [%s]")
             ELSE Decimal_to_python(self, StrV(sign \o Remove(d.digits, ",")
                                              \o (IF d.cents # <<>> THEN d.cents ELSE <<".", "0", "0">>)))
    ELSE Decimal_to_python(self, value)

Currency_to_python(self, value) ==
    IF IsStr(value)
    THEN LET d == currency_search(value.s)
             sign == IF d.sign2 # <<>> THEN d.sign2 ELSE d.sign1
         IN  IF ~d.match
             THEN Raise("ValidationException", "Please enter a number - [%s]")
             ELSE IF d.digits = <<>> /\ d.cents = <<>>
             THEN Raise("ValidationException", "Please enter a number - [%s]")
             ELSE Decimal_to_python(self, StrV(sign \o Remove(d.digits, ",")
                                              \o (IF d.cents # <<>> THEN d.cents ELSE <<".", "0", "0">>)))
    ELSE Decimal_to_python(self, value)

\* re.sub(r"(.*?)( *?% *$)", r'\1', s): a final '%' goes, with the blanks around it
PercentSub(s) ==
    LET r == RStrip(s)
    IN  IF r # <<>> /\ r[Len(r)] = "%" THEN RStrip(DropLast(r, 1)) ELSE s
Percentage_to_python(self, value) ==
    Decimal_to_python(self, IF IsStr(value) THEN StrV(PercentSub(value.s)) ELSE value)

\* Type._to_python and Enum._to_python: the values `value not in choices` looks at
ChoiceValues(choices) ==
    IF choices.form = "pairs" THEN {choices.items[i][1] : i \in 1..Len(choices.items)}
    ELSE SeqRange(choices.items)

Type_to_python(self, value) ==
    LET r == Integer_to_python(self, value)
    IN  IF IsRaise(r) THEN r
        ELSE IF r.v \notin ChoiceValues(self.choices)
        THEN Raise("ValidationException", "Valid choices are: %s. You provided [%s]")
        ELSE r

HalfOf(rounding) == CASE rounding = "ROUND_HALF_UP" -> "up"
                      [] rounding = "ROUND_HALF_DOWN" -> "down"
                      [] OTHER -> "even"
\* decimal.Decimal(x) of a text, an int or a Decimal
ToDecimal(v) ==
    CASE v.t = "dec" -> v
      [] v.t = "int" -> BoundToDec(v)
      [] v.t = "bool" -> Dec(FALSE, IF v.b THEN 1 ELSE 0, 0, 0)
      [] OTHER -> LET f == PyFloatOfText(v.s).v IN
                  IF f.kind = "inf" THEN DecInf(f.neg) ELSE Dec(f.neg, f.ip, f.fr, 3)
\* the number of fractional digits of '.' + '0' * (scale - 1) + '1'
QuantizeDigits(scale) == IF scale >= 1 THEN scale ELSE 1

Integer_from_python(self, value) ==
    IF IsNum(value)
    THEN LET n == PyInt(value) IN IF IsRaise(n) THEN n ELSE Return(split_thousands(n.v))
    ELSE Return(value)

Decimal_from_python(self, value) ==
    IF IsNum(value)
    THEN LET d == ToDecimal(IF value.t = "float" THEN StrV(FloatToFixed6(value)) ELSE value)
         IN  IF d.kind = "inf"
             THEN Raise("InvalidOperation", "quantize with one INF")
             ELSE Return(split_thousands(StrV(DecToStr(Rescale(d, QuantizeDigits(self.scale), HalfOf(self.rounding))))))
    ELSE Return(value)

Currency_from_python(self, value) ==
    IF IsNum(value)
    THEN LET r == Decimal_from_python(self, value)
         IN  IF IsRaise(r) THEN r ELSE Return(StrV(<<"$">> \o PyUnicode(r.v)))
    ELSE Return(value)

ObjectID_from_python(self, value) ==
    IF IsNum(value)
    THEN LET n == PyInt(value) IN IF IsRaise(n) THEN n ELSE Return(StrV(IntToStr(n.v.n)))
    ELSE Return(value)

(***************************************************************************)
(* Textual family                                                          *)
(***************************************************************************)
\* Unicode._validate: both checks are skipped for a falsy (None or 0) limit
Unicode_validate(self, value) ==
    IF PyTruth(self.min_length) /\ Len(value.s) < self.min_length.n
    THEN Raise("MinLengthException", "Please enter a string no shorter than than %d characters")
    ELSE IF PyTruth(self.max_length) /\ ~self.truncate /\ Len(value.s) > self.max_length.n
    THEN Raise("MaxLengthException", "Please enter a string no more than %d characters")
    ELSE Return(value)

Enum_to_python(self, value) ==
    LET v == StrV(Strip(PyUnicode(value)))
    IN  IF v \notin ChoiceValues(self.choices)
        THEN Raise("ValidationException", "Valid choices are: %s. You provided [%s]")
        ELSE Return(v)

\* _phoneRE at start position p with g country-code digits: the groups, or
\* no match.  \D* between two digit groups can only be the whole run of
\* non-digits.
PhoneAt(s, p, g) ==
    LET a == SkipNonDigits(s, p + g)
        b == SkipNonDigits(s, a + 3)
        c == SkipNonDigits(s, b + 3)
    IN  [match |-> /\ DigitsAt(s, a, 3) /\ s[a] \notin {"0", "1"}
                   /\ DigitsAt(s, b, 3)
                   /\ DigitsAt(s, c, 4) /\ c + 4 = Len(s) + 1,
         groups |-> <<Slice(s, p - 1, p + g - 1), Slice(s, a - 1, a + 2),
                      Slice(s, b - 1, b + 2), Slice(s, c - 1, c + 3)>>]
\* _phoneRE.search(s): the leftmost start, and there the longest (\d*) that
\* lets the rest match
phoneRE_search(s) ==
    LET Cand == {pg \in (1..(Len(s) + 1)) \X (0..Len(s)) :
                    /\ pg[1] + pg[2] - 1 <= Len(s)
                    /\ \A i \in pg[1]..(pg[1] + pg[2] - 1) : IsDigit(s[i])
                    /\ PhoneAt(s, pg[1], pg[2]).match}
    IN  IF Cand = {} THEN [match |-> FALSE, groups |-> <<>>]
        ELSE LET best == CHOOSE pg \in Cand : \A o \in Cand :
                             pg[1] < o[1] \/ (pg[1] = o[1] /\ pg[2] >= o[2])
             IN  PhoneAt(s, best[1], best[2])

\* ''.join(filter(None, groups))
RECURSIVE Join(_)
Join(groups) == IF groups = <<>> THEN <<>> ELSE Head(groups) \o Join(Tail(groups))

\* match.groups(0) is a tuple, never None: the '+' is always put in front
PhoneNumber_to_python(self, value) ==
    LET m == phoneRE_search(PyUnicode(value))
    IN  IF ~m.match
        THEN Raise("ValidationException", "Please enter a 10 digit phone number with optional +country code in the format +#* ###-###-####")
        ELSE Return(StrV(<<"+">> \o Join(m.groups)))

PhoneFormat(v) == <<"(">> \o Slice(v, 0, 3) \o <<")", " ">> \o Slice(v, 3, 6) \o <<"-">> \o From(v, 6)
PhoneNumber_from_python(self, value) ==
    IF ~IsStr(value) THEN Return(value)
    ELSE IF value.s = <<>> THEN Raise("IndexError", "string index out of range")
    ELSE IF value.s[1] = "+"
    THEN (IF Len(value.s) < 12 THEN Return(value)
          ELSE Return(StrV(DropLast(value.s, 10) \o <<" ">> \o PhoneFormat(Last(value.s, 10)))))
    ELSE IF Len(value.s) # 10 THEN Return(value)
    ELSE Return(StrV(PhoneFormat(value.s)))

\* ^(\d\d\d\d\d), ^(\d\d\d\d) and ^(\d{1,6})
ZipCode5_to_python(self, value) ==
    LET s == PyUnicode(value)
    IN  IF DigitsAt(s, 1, 5) THEN Return(StrV(Slice(s, 0, 5)))
        ELSE Raise("ValidationException", "Please enter zip code as a 5 digit number - [%s]")
ZipCodeExt_to_python(self, value) ==
    LET s == PyUnicode(value)
    IN  IF DigitsAt(s, 1, 4) THEN Return(StrV(Slice(s, 0, 4)))
        ELSE Raise("ValidationException", "Please enter ZipCodeExt as a 4 digit number - [%s]")
PhoneExt_to_python(self, value) ==
    LET s == PyUnicode(value)
    IN  IF DigitsAt(s, 1, 1) THEN Return(StrV(Slice(s, 0, Min2(SkipDigits(s, 1) - 1, 6))))
        ELSE Raise("ValidationException", "Please enter extension as a 1-6 digit number - [%s]")

(***************************************************************************)
(* Boolean                                                                 *)
(***************************************************************************)
UpperChars == <<"A", "B", "C", "D", "E", "F", "G", "H", "I", "J", "K", "L", "M",
                "N", "O", "P", "Q", "R", "S", "T", "U", "V", "W", "X", "Y", "Z">>
LowerChars == <<"a", "b", "c", "d", "e", "f", "g", "h", "i", "j", "k", "l", "m",
                "n", "o", "p", "q", "r", "s", "t", "u", "v", "w", "x", "y", "z">>
LowerChar(c) == IF \E i \in 1..26 : UpperChars[i] = c
                THEN LowerChars[CHOOSE i \in 1..26 : UpperChars[i] = c] ELSE c
\* s.lower()
Lower(s) == [i \in 1..Len(s) |-> LowerChar(s[i])]

true_values == {<<"t", "r", "u", "e">>, <<"t">>, <<"y", "e", "s">>, <<"y">>, <<"o", "n">>, <<"1">>,
                <<"y", "e", "a", "h">>, <<"y", "a", "h">>, <<"y", "u", "p">>}
false_values == {<<"f", "a", "l", "s", "e">>, <<"f">>, <<"n", "o">>, <<"n">>, <<"o", "f", "f">>, <<"0">>,
                 <<"2">>, <<"n", "a", "h">>, <<"n", "o", "p", "e">>}
none_values == {<<"n", "o", "n", "e">>}

Boolean_to_python(self, value) ==
    IF IsStr(value)
    THEN LET v == Lower(Strip(value.s))
         IN  IF v \in true_values THEN Return(BoolV(TRUE))
             ELSE IF v = <<>> \/ v \in false_values THEN Return(BoolV(FALSE))
             ELSE IF v \in none_values THEN Return(NoneV)
             ELSE Raise("ValidationException", "Please enter \"yes\" or \"no\"")
    ELSE Return(BoolV(PyTruth(value)))

(***************************************************************************)
(* Email                                                                   *)
(***************************************************************************)
Letters == SeqRange(UpperChars) \cup SeqRange(LowerChars)
\* Email.local_part_constraints: the letters, the digits, the characters 33,
\* 35-39, 42, 43, 45, 47, 61, 63, 94-96 and 123-126, and 46 (.); the grave
\* accent (96) is left out, no input holds it
local_part_constraints ==
    Letters \cup DigitSet
    \cup {"!", "#", "$", "%", "&", "'", "*", "+", "-", "/", "=", "?", "^", "_", "{", "|", "}", "~", "."}
\* Email.__init__: char_index holds every character of local_part_constraints
Email(max_length, truncate) ==
    [Unicode(NoneV, max_length, truncate) EXCEPT !.cls = "Email"] @@ [char_index |-> local_part_constraints]

\* s.find(c): the 0-based index of the first c, or -1
Find(s, c) == IF \E i \in 1..Len(s) : s[i] = c
              THEN (CHOOSE i \in 1..Len(s) : s[i] = c /\ \A j \in 1..(i - 1) : s[j] # c) - 1
              ELSE -1
\* value.find('..') != -1
HasDotDot(s) == \E i \in 1..(Len(s) - 1) : s[i] = "." /\ s[i + 1] = "."

\* Email._check_username
check_username(self, value) ==
    /\ \A i \in 1..Len(value) : value[i] \in self.char_index
    /\ ~(StartsWith(value, <<".">>) \/ EndsWith(value, <<".">>))
    /\ ~HasDotDot(value)

\* [a-z0-9][a-z0-9\-]{0,62} with re.I
IsDomainLabel(s) ==
    /\ Len(s) >= 1 /\ Len(s) <= 63
    /\ s[1] \in Letters \cup DigitSet
    /\ \A i \in 2..Len(s) : s[i] \in Letters \cup DigitSet \cup {"-"}
\* [a-z]{2,} with re.I
IsTopLevel(s) == Len(s) >= 2 /\ \A i \in 1..Len(s) : s[i] \in Letters
\* (label\.)* tld: no label and no tld holds a '.', so the dots delimit them
RECURSIVE DomainTail(_)
DomainTail(s) ==
    LET i == Find(s, ".")
    IN  IF i = -1 THEN IsTopLevel(s)
        ELSE IsDomainLabel(Slice(s, 0, i)) /\ DomainTail(From(s, i + 1))
\* Email.domainRE.search(domain): ^(label\.)+tld$
domainRE_search(s) == Find(s, ".") # -1 /\ DomainTail(s)

\* Email._to_python
Email_to_python(self, value) ==
    LET v == Strip(Unicode_to_python(self, value).v.s)
        at == Find(v, "@")
        username == Slice(v, 0, at)
        domain == From(v, at + 1)
    IN  IF at = -1
        THEN Raise("ValidationException", "Please enter an email address in the form user@domain.com")
        ELSE IF ~check_username(self, username)
        THEN Raise("ValidationException", "The username portion of the email address is invalid (the portion before the @: %s)")
        ELSE IF ~domainRE_search(domain)
        THEN Raise("ValidationException", "The domain portion of the email address is invalid (the portion after the @: %s)")
        ELSE Return(StrV(v))

(***************************************************************************)
(* Time                                                                    *)
(***************************************************************************)
Time == Validator("Time")
\* a datetime.time
TimeV(hour, minute, second) == [t |-> "time", hour |-> hour, minute |-> minute, second |-> second]
NoMatch == [ok |-> FALSE]

\* (\s*AM|PM)?$ on the rest of the text, with re.I: the text of the group, or
\* None when the group did not take part; the alternatives are \s*AM and PM
MarkerGroup(rest) ==
    IF rest = <<>> THEN [ok |-> TRUE, g |-> NoneV]
    ELSE IF Lower(LStrip(rest)) = <<"a", "m">> \/ Lower(rest) = <<"p", "m">>
    THEN [ok |-> TRUE, g |-> StrV(rest)]
    ELSE NoMatch

\* one way of matching time_re: the hour takes hl digits, and the third
\* group takes part (sec) or not
TimeMatch(s, hl, sec) ==
    LET c1 == IF Len(s) > hl /\ s[hl + 1] = ":" THEN 1 ELSE 0
        m0 == hl + c1
        c2 == IF sec /\ Len(s) > m0 + 2 /\ s[m0 + 3] = ":" THEN 1 ELSE 0
        e == IF sec THEN m0 + 2 + c2 + 2 ELSE m0 + 2
    IN  IF /\ Len(s) >= e
           /\ AllDigits(Slice(s, 0, hl))
           /\ AllDigits(Slice(s, m0, m0 + 2))
           /\ sec => AllDigits(Slice(s, m0 + 2 + c2, e))
        THEN LET mk == MarkerGroup(From(s, e))
             IN  IF mk.ok
                 THEN [ok |-> TRUE,
                       g1 |-> Slice(s, 0, hl), g2 |-> Slice(s, m0, m0 + 2),
                       g3 |-> IF sec THEN StrV(Slice(s, m0 + 2, e)) ELSE NoneV,
                       g4 |-> mk.g]
                 ELSE NoMatch
        ELSE NoMatch

\* Time.time_re.match(value): ^(\d{1,2}):?(\d\d)(:?\d\d)?(\s*AM|PM)?$, the
\* greedy alternatives first
time_re_match(s) ==
    IF TimeMatch(s, 2, TRUE).ok THEN TimeMatch(s, 2, TRUE)
    ELSE IF TimeMatch(s, 2, FALSE).ok THEN TimeMatch(s, 2, FALSE)
    ELSE IF TimeMatch(s, 1, TRUE).ok THEN TimeMatch(s, 1, TRUE)
    ELSE TimeMatch(s, 1, FALSE)

\* the text Time._to_python hands to the parser
Time_normalized(m) ==
    m.g1 \o <<":">> \o m.g2
    \o (IF m.g3 # NoneV THEN <<":">> \o Remove(m.g3.s, ":") ELSE <<>>)
    \o (IF m.g4 # NoneV THEN <<" ">> \o Strip(m.g4.s) ELSE <<>>)

\* dateutil's parse(text).time() on a text H:MM[:SS][ AM|PM], an external
\* collaborator: the fields must be in range (the messages are those of the
\* doctests); with a marker the hour is one of a 12-hour clock, as it is in
\* every text the model passes
parse_time(text) ==
    LET c == Find(text, ":")
        hour == StrToNat(Slice(text, 0, c))
        minute == StrToNat(Slice(text, c + 1, c + 3))
        hasSec == Len(text) > c + 3 /\ text[c + 4] = ":"
        second == IF hasSec THEN StrToNat(Slice(text, c + 4, c + 6)) ELSE 0
        mark == Lower(Last(text, 2))
        ampm == mark \in {<<"a", "m">>, <<"p", "m">>}
    IN  IF ampm /\ (hour = 0 \/ hour > 12) THEN Raise("ValidationException", "Invalid hour specified for 12-hour clock.")
        ELSE IF hour > 23 THEN Raise("ValidationException", "hour must be in 0..23")
        ELSE IF minute > 59 THEN Raise("ValidationException", "minute must be in 0..59")
        ELSE IF second > 59 THEN Raise("ValidationException", "second must be in 0..59")
        ELSE Return(TimeV(IF ~ampm THEN hour
                          ELSE IF mark = <<"p", "m">> THEN (IF hour = 12 THEN 12 ELSE hour + 12)
                          ELSE (IF hour = 12 THEN 0 ELSE hour),
                          minute, second))

\* Time._to_python
Time_to_python(self, value) ==
    IF value.t = "time" THEN Return(value)
    ELSE LET m == time_re_match(PyUnicode(value))
         IN  IF ~m.ok THEN Raise("ValidationException", "Invalid time format, please use XX:XX")
             ELSE parse_time(Time_normalized(m))

\* Time._from_python: value.strftime('%H:%M')
Time_from_python(self, value) ==
    IF value.t = "time" THEN Return(StrV(PadNat(value.hour, 2) \o <<":">> \o PadNat(value.minute, 2)))
    ELSE Return(value)

(***************************************************************************)
(* Validator: the hooks of each class and the public operations            *)
(***************************************************************************)
_to_python(self, value) ==
    CASE self.cls = "Integer" -> Integer_to_python(self, value)
      [] self.cls = "ObjectID" -> Integer_to_python(self, value)
      [] self.cls = "Type" -> Type_to_python(self, value)
      [] self.cls = "Decimal" -> Decimal_to_python(self, value)
      [] self.cls = "Currency" -> Currency_to_python(self, value)
      [] self.cls = "Percentage" -> Percentage_to_python(self, value)
      [] self.cls = "Unicode" -> Unicode_to_python(self, value)
      [] self.cls = "Enum" -> Enum_to_python(self, value)
      [] self.cls = "PhoneNumber" -> PhoneNumber_to_python(self, value)
      [] self.cls = "ZipCode5" -> ZipCode5_to_python(self, value)
      [] self.cls = "ZipCodeExt" -> ZipCodeExt_to_python(self, value)
      [] self.cls = "PhoneExt" -> PhoneExt_to_python(self, value)
      [] self.cls = "Boolean" -> Boolean_to_python(self, value)
      [] self.cls = "Email" -> Email_to_python(self, value)
      [] self.cls = "Time" -> Time_to_python(self, value)
      [] OTHER -> Return(value)

_validate(self, value) ==
    IF self.cls \in UnicodeClasses THEN Unicode_validate(self, value) ELSE Return(value)

_from_python(self, value) ==
    CASE self.cls \in {"Integer", "Type"} -> Integer_from_python(self, value)
      [] self.cls = "ObjectID" -> ObjectID_from_python(self, value)
      [] self.cls \in {"Decimal", "Percentage"} -> Decimal_from_python(self, value)
      [] self.cls = "Currency" -> Currency_from_python(self, value)
      [] self.cls = "PhoneNumber" -> PhoneNumber_from_python(self, value)
      [] self.cls = "Time" -> Time_from_python(self, value)
      [] OTHER -> Return(StrV(PyUnicode(value)))

\* to_python with the hooks run before the emptiness check
to_python_hooks_first(self, value) ==
    LET p == _to_python(self, value)
    IN  IF IsRaise(p) THEN [out |-> p, hooks |-> <<"_to_python">>]
        ELSE IF is_empty(self, value) THEN [out |-> Return(NoneV), hooks |-> <<"_to_python">>]
        ELSE [out |-> _validate(self, p.v), hooks |-> <<"_to_python", "_validate">>]

\* Validator.to_python: the outcome and the hooks it invoked, in order
to_python(self, value) ==
    IF is_empty(self, value) THEN [out |-> Return(NoneV), hooks |-> <<>>]
    ELSE LET p == _to_python(self, value)
         IN  IF IsRaise(p) THEN [out |-> p, hooks |-> <<"_to_python">>]
             ELSE [out |-> _validate(self, p.v), hooks |-> <<"_to_python", "_validate">>]

\* Validator.from_python
from_python(self, value) == [out |-> _from_python(self, value), hooks |-> <<"_from_python">>]

(***************************************************************************)
(* The inputs of the model: the validators that are constructed and the    *)
(* values they are called with.                                            *)
(***************************************************************************)
HALF_EVEN == "ROUND_HALF_EVEN"
one_two_three == ChoiceList(<<StrV(<<"o", "n", "e">>), StrV(<<"t", "w", "o">>), StrV(<<"t", "h", "r", "e", "e">>)>>)
yes_no_pairs == ChoicePairs(<<<<StrV(<<"y">>), StrV(<<"y", "e", "s">>)>>, <<StrV(<<"n">>), StrV(<<"n", "o">>)>>>>)
Validators ==
    {Integer(NoneV, NoneV), Integer(IntV(0), IntV(10)),
     ObjectID(IntV(1), NoneV),
     Type(ChoiceList(<<IntV(1), IntV(2), IntV(3)>>), NoneV, NoneV),
     Type(ChoicePairs(<<<<IntV(0), StrV(<<"n", "o">>)>>, <<IntV(11), StrV(<<"y", "e", "s">>)>>>>), IntV(0), IntV(10)),
     Decimal(NoneV, NoneV, HALF_EVEN, 2), Decimal(IntV(0), IntV(10), HALF_EVEN, 2),
     Decimal(IntV(0), Float(FALSE, 10, 10), HALF_EVEN, 2),
     Decimal(NoneV, NoneV, "ROUND_HALF_UP", 1),
     Currency(NoneV, NoneV, HALF_EVEN, 2), Currency(IntV(0), IntV(10), HALF_EVEN, 2),
     Currency(NoneV, NoneV, HALF_EVEN, 3),
     Percentage(NoneV, NoneV, HALF_EVEN, 2),
     Unicode(NoneV, IntV(10), FALSE), Unicode(IntV(2), IntV(3), FALSE),
     Unicode(NoneV, IntV(3), TRUE), Unicode(IntV(0), NoneV, FALSE),
     Enum(one_two_three, IntV(3), FALSE), Enum(yes_no_pairs, NoneV, FALSE),
     Boolean,
     PhoneNumber(IntV(16), FALSE), PhoneNumber(IntV(11), TRUE),
     ZipCode5(IntV(5), FALSE), ZipCodeExt(IntV(4), FALSE), PhoneExt(IntV(6), FALSE),
     Email(IntV(255), FALSE), Email(IntV(12), FALSE), Time}

\* the first k digits of 1234567890
PatternNat(k) == StrToNat(SubSeq(<<"1", "2", "3", "4", "5", "6", "7", "8", "9", "0">>, 1, k))
\* the magnitudes of the numeric inputs
Mags == (0..MaxSmall) \cup {Pow10(k) : k \in 1..(MaxDigits - 1)}
        \cup {Pow10(k) - 1 : k \in 1..MaxDigits} \cup {PatternNat(k) : k \in 1..MaxDigits}
\* digits with a ',' before every group of three counted from the right
RECURSIVE Grouped(_)
Grouped(d) == IF Len(d) <= 3 THEN d
              ELSE Grouped(SubSeq(d, 1, Len(d) - 3)) \o <<",">> \o SubSeq(d, Len(d) - 2, Len(d))
DigitTexts == {NatToStr(m) : m \in Mags} \cup {Grouped(NatToStr(m)) : m \in Mags}
              \cup {<<>>, <<"1", ",", "0", "0">>, <<"1", "0", "0", "0", ",", "0", "0", "0">>, <<"0", "0", "7">>}
FracTexts == {<<>>, <<".", "3">>, <<".", "3", "0">>, <<".", "0", "0", "1">>, <<".", "9", "9", "9">>, <<".">>}
SignTexts == {<<>>, <<"+">>, <<"-">>}
PlainNumberTexts == {s \o d \o f : s \in SignTexts, d \in DigitTexts, f \in FracTexts}
CurrencyTexts == {s1 \o <<"$">> \o s2 \o d \o f :
                     s1 \in SignTexts, s2 \in SignTexts, d \in DigitTexts, f \in FracTexts}
OtherNumberTexts == {<<"i", "n", "f">>, <<"-", "i", "n", "f">>, <<"$">>, <<" ", "$", " ">>, <<" ", "7", " ">>, <<"5", "%">>, <<"5", " ", "%">>, <<"5", "%", "%">>, <<"1", ".", "2", "3", "4">>, <<"$", ".", "5">>, <<".", "5">>}
IntArgs == {IntV(m) : m \in Mags} \cup {IntV(-m) : m \in Mags}
FloatArgs == {Float(n, ip, fr) : n \in BOOLEAN, ip \in {0, 10, 1234}, fr \in {0, 1, 125, 500, 999}}
DecArgs == {Dec(n, m, fr, 2) : n \in BOOLEAN, m \in Mags, fr \in {0, 30}}
           \cup {DecInf(FALSE), DecInf(TRUE), Dec(FALSE, 1, 5, 1), Dec(FALSE, 2, 125, 3), Dec(TRUE, 1234, 995, 3)}
BoolArgs == {BoolV(TRUE), BoolV(FALSE)}

Repeat(c, n) == [i \in 1..n |-> c]
RunTexts == {Repeat("a", n) : n \in 0..MaxRun} \cup {<<" ">> \o Repeat("a", n) \o <<" ">> : n \in 0..MaxRun}
            \cup {Repeat("a", 11), Repeat(" ", 2)}
WordTexts == {<<"o", "n", "e">>, <<" ", "t", "w", "o", " ">>, <<"z", "e", "r", "o">>, <<"t", "h", "r", "e", "e">>, <<"t">>, <<"T", "R", "U", "E">>, <<" ", "Y", "e", "s", " ">>, <<"0">>, <<"w", "t", "f">>, <<"N", "o", "n", "e">>, <<"h", "e", "l", "l", "o">>, <<"0", "1", "2", "3", "4", "5", "6", "7", "8", "9", "0">>}
PhoneTexts == {cc \o sep \o area \o sep \o exch \o sep \o sub :
                  cc \in {<<>>, <<"1">>, <<"4", "4">>, <<"+", "1">>, <<"+", "4", "4">>}, sep \in {<<>>, <<"-">>, <<" ", " ">>}, area \in {<<"2", "2", "3">>, <<"1", "1", "2">>, <<"0", "0", "0">>}, exch \in {<<"4", "5", "6">>, <<"0", "0", "0">>}, sub \in {<<"7", "8", "9", "0">>, <<"0", "0", "0", "0">>, <<"7", "8", "9", "o">>}}
              \cup {<<"+", "1", "2", "2", "3", "4", "5", "6", "7", "8", "9", "0">>, <<"+", "4", "4", "2", "2", "3", "4", "5", "6", "7", "8", "9", "0">>, <<"4", "4", "2", "2", "3", "4", "5", "6", "7", "8", "9", "0">>, <<"2", "3", "4", "5", "6", "7", "8", "9", "0", "1">>, <<"2", "3", "4", "5", "6", "3", "7">>, <<"+", "2", "2", "3", "4", "5", "6", "7", "8", "9", "0">>, <<"+">>, <<"1", "2", "3", "4", "5", "6", "7", "8", "9", "0", "1", "2", "3", "4", "5", "6", "7", "8", "9", "0">>}
ZipTexts == {<<"0", "2", "1", "1", "5">>, <<"1", "2", "3", "4">>, <<"1", "2", "3", "4", "5", "6">>, <<"o", "2", "1", "1", "5">>, <<"1", "2", "3", "4", "5", "6", "7">>, <<"1", "2", "3">>, <<"1", "2", "3", "4", "5">>, <<"o", "1", "2", "3">>}

\* local parts and domains of e-mail addresses, well-formed and not
LocalTexts == {<<>>, <<"g">>, <<"g", ".", "c">>, <<"g", ".", "+", "c">>, <<".", "g">>, <<"g", ".">>,
               <<"g", ".", ".", "c">>, <<"g", " ", "c">>, <<"g", "(", "c">>, <<"G", "_", "1">>, <<".">>}
LongLabel(n) == Repeat("a", n - 1) \o <<"b">>
DomainTexts == {<<>>, <<"c", "o", "m">>, <<"b", ".", "c", "o">>, <<"b", ".", "c">>, <<"B", ".", "C", "O", "M">>,
                <<"s", ".", "b", "-", "1", ".", "c", "o">>, <<"-", "b", ".", "c", "o">>,
                <<"b", "-", ".", "c", "o">>, <<"b", ".", ".", "c", "o">>, <<".", "c", "o">>,
                <<"b", ".", "c", "0">>, <<"b", ".", "c", "o", ".">>, <<"c", "@", "b", ".", "c", "o">>,
                <<"b", "_", "c", ".", "c", "o">>, <<"1", ".", "c", "o">>,
                LongLabel(63) \o <<".", "c", "o">>, LongLabel(64) \o <<".", "c", "o">>}
EmailTexts == {l \o <<"@">> \o d : l \in LocalTexts, d \in DomainTexts}
              \cup {<<" ">> \o l \o <<"@">> \o d \o <<" ">> : l \in {<<"g">>, <<".", "g">>}, d \in {<<"b", ".", "c", "o">>, <<"c", "o", "m">>}}
              \cup {<<"g">>, <<"g", ".", "c", "o", "m">>, <<"@">>}

\* texts of times: hour, minutes, seconds and marker, with and without
\* separators, and texts that are no times
TimeTexts == {h \o c \o <<"4", "5">> \o s \o m :
                 h \in {<<"5">>, <<"1", "2">>, <<"1", "3">>, <<"2", "4">>, <<>>, <<"1", "2", "3">>},
                 c \in {<<>>, <<":">>},
                 s \in {<<>>, <<"3", "0">>, <<":", "3", "0">>, <<":", "6", "0">>, <<":", "3">>},
                 m \in {<<>>, <<" ">>, <<"M">>}}
             \cup {h \o c \o <<"4", "5">> \o s \o m :
                 h \in {<<"5">>, <<"1", "2">>},
                 c \in {<<>>, <<":">>},
                 s \in {<<>>, <<"3", "0">>, <<":", "3", "0">>},
                 m \in {<<"A", "M">>, <<"P", "M">>, <<" ", "A", "M">>, <<" ", "P", "M">>, <<"p", "m">>,
                         <<" ", " ", "a", "m">>, <<" ", " ", "p", "m">>, <<"A", "M", " ">>, <<"A", " ", "M">>}}
             \cup {<<"1", "3", ":", "6", "0">>, <<"5", ":", ":", "4", "5">>, <<"n", "o", "o", "n">>, <<" ", "5", ":", "4", "5">>}

StrVs(texts) == {StrV(s) : s \in texts}
CommonArgs == {NoneV, IntV(0), IntV(2)} \cup StrVs({<<>>, <<" ">>, <<"c">>})
NumberArgs == StrVs(PlainNumberTexts \cup OtherNumberTexts) \cup IntArgs \cup FloatArgs \cup DecArgs \cup BoolArgs
TextArgs == StrVs(RunTexts \cup WordTexts) \cup {IntV(123456789), BoolV(TRUE), Float(FALSE, 1, 500)}
PhoneArgs == StrVs(PhoneTexts) \cup {IntV(2147483647), IntV(12234567), Dec(FALSE, 0, 0, 2)}

\* the values a validator of each class is called with
ArgsFor(self) ==
    CommonArgs \cup
    CASE self.cls \in {"Integer", "ObjectID", "Type", "Decimal", "Percentage"} -> NumberArgs
      [] self.cls = "Currency" -> NumberArgs \cup StrVs(CurrencyTexts)
      [] self.cls \in {"Unicode", "Enum", "Boolean"} -> TextArgs
      [] self.cls = "PhoneNumber" -> PhoneArgs
      [] self.cls = "Email" -> StrVs(EmailTexts) \cup {IntV(123456789)}
      [] self.cls = "Time" -> StrVs(TimeTexts) \cup {IntV(1545), IntV(545), IntV(7), TimeV(13, 45, 0)}
      [] OTHER -> StrVs(ZipTexts) \cup {IntV(12115), IntV(1234)}

(***************************************************************************)
(* exception.py: error objects and the collections merge_errors builds.    *)
(* An error object has an identity; the heap holds its attributes.  A      *)
(* dict is a function from its keys (field names and prefixed field names, *)
(* here atomic strings) to error objects.                                  *)
(***************************************************************************)
Leaves == {"err1", "err2"}
ErrIds == Leaves \cup {"err3"}
Fields == {"a", "b"}
DictV(m) == [t |-> "dict", m |-> m]
ExcV(id) == [t |-> "exc", id |-> id]
KeyV(s) == [t |-> "str", s |-> s]
\* the dicts {field: error}
Mappings == UNION {[S -> Leaves] : S \in SUBSET Fields}
\* ValidationException.__init__: field defaults to 'unknown', error_dict to None
ValidationException(field, error_dict) ==
    [field |-> IF field = "" THEN "unknown" ELSE field, error_dict |-> error_dict,
     warning_key |-> NoneV, warning_ignored |-> FALSE]

\* bool(e) of a failure: None and the empty dict are falsy, an exception is not
Truthy(e) == CASE e.t = "none" -> FALSE
               [] e.t = "dict" -> DOMAIN e.m # {}
               [] OTHER -> TRUE

\* d[k] = v
Put(d, k, v) == [x \in (DOMAIN d) \cup {k} |-> IF x = k THEN v ELSE d[x]]
\* the orders in which a dict can be iterated
Orders(m) == {o \in [1..Cardinality(DOMAIN m) -> DOMAIN m] : \A i, j \in DOMAIN o : o[i] = o[j] => i = j}

\* for k, v in items: v.field = k; errors[prefix + k] = v
RECURSIVE MergeItems(_, _, _, _, _)
MergeItems(errs, hp, m, prefix, order) ==
    IF order = <<>> THEN [errors |-> errs, heap |-> hp]
    ELSE LET k == Head(order)
             v == m[k]
         IN  MergeItems(Put(errs, prefix \o k, v), [hp EXCEPT ![v].field = k], m, prefix, Tail(order))

\* the dict merge_errors iterates: e itself, or e.error_dict
Items(hp, e) == IF e.t = "dict" THEN e.m
                ELSE IF e.t = "exc" /\ Truthy(hp[e.id].error_dict) THEN hp[e.id].error_dict.m
                ELSE <<>>

\* merge_errors that drops the prefix
merge_errors_no_prefix(errs, hp, e, prefix0, order) ==
    IF ~Truthy(e) THEN [errors |-> errs, heap |-> hp]
    ELSE IF e.t = "dict" \/ Truthy(hp[e.id].error_dict)
         THEN MergeItems(errs, hp, Items(hp, e), "", order)
         ELSE [errors |-> Put(errs, hp[e.id].field, e.id), heap |-> hp]

\* ValidationException.merge_errors(errors, e, prefix); order: the order in
\* which the dict is iterated
merge_errors(errs, hp, e, prefix0, order) ==
    IF ~Truthy(e) THEN [errors |-> errs, heap |-> hp]
    ELSE LET prefix == IF prefix0 = NoneV THEN "" ELSE prefix0.s
         IN  IF e.t = "dict" THEN MergeItems(errs, hp, e.m, prefix, order)
             ELSE IF Truthy(hp[e.id].error_dict)
             THEN MergeItems(errs, hp, hp[e.id].error_dict.m, prefix, order)
             ELSE [errors |-> Put(errs, prefix \o hp[e.id].field, e.id), heap |-> hp]

\* ValidationException.create_warning: an error that carries a warning key
\* (the key is a sha1 digest, here an atomic string)
create_warning(warning_key, field) ==
    [ValidationException(field, NoneV) EXCEPT !.warning_key = KeyV(warning_key)]
WarningKeys == {"k1", "k2"}

\* 'om_ignore' in values and values['om_ignore'].get(warning_key, False);
\* values is None when it has no 'om_ignore', else the om_ignore dict
\* {warning key: acknowledged}
Acknowledged(values, warning_key) ==
    /\ values # NoneV
    /\ warning_key # NoneV
    /\ warning_key.s \in DOMAIN values.m
    /\ values.m[warning_key.s]

\* handle_warning on every error of the collection: sets warning_ignored
handle_warning(hp, coll, values) ==
    [id \in DOMAIN hp |->
        IF \E k \in DOMAIN coll : coll[k] = id
        THEN [hp[id] EXCEPT !.warning_ignored = Acknowledged(values, hp[id].warning_key)]
        ELSE hp[id]]

\* {k: v ... if not v.warning_ignored}
Kept(hp, coll) ==
    LET keep == {k \in DOMAIN coll : ~hp[coll[k]].warning_ignored}
    IN  [k \in keep |-> coll[k]]

\* handle_warnings that filters without calling handle_warning first
handle_warnings_stale_flags(hp, coll, values) ==
    [result |-> Kept(hp, coll), heap |-> hp]

\* ValidationException.handle_warnings(errors, values)
handle_warnings(hp, coll, values) ==
    LET hp2 == handle_warning(hp, coll, values)
    IN  [result |-> Kept(hp2, coll), heap |-> hp2]

\* the values a caller passes: without 'om_ignore', or with an om_ignore
\* dict that acknowledges (True) or not (False) some warning keys
AckValues == {NoneV} \cup {DictV(m) : m \in UNION {[S -> BOOLEAN] : S \in SUBSET WarningKeys}}

\* the keys merge_errors assigns
Written(hp, e, prefix0) ==
    LET prefix == IF prefix0 = NoneV THEN "" ELSE prefix0.s
    IN  IF ~Truthy(e) THEN {}
        ELSE IF e.t = "dict" \/ Truthy(hp[e.id].error_dict)
        THEN {prefix \o k : k \in DOMAIN Items(hp, e)}
        ELSE {prefix \o hp[e.id].field}

(***************************************************************************)
(* ValidationWarningException.overrides: the registry of acknowledged      *)
(* warning keys, one dict {key: True} (here the set of its keys) per       *)
(* thread identity.  The interpreter runs one bytecode at a time, so each  *)
(* dict operation of register_overrides is one step of the calling thread. *)
(***************************************************************************)
Threads == {"t1", "t2"}
\* thread.get_ident() that gives every thread the same identity
get_ident_shared(t) == "t1"
\* thread.get_ident(): the identities of live threads are distinct
get_ident(t) == t
\* the keys a call passes, in iteration order
KeyLists == {<<>>, <<"k1">>, <<"k2">>, <<"k1", "k2">>, <<"k2", "k1">>}
\* tid not in cls.overrides
register_absent(ov, tid) == tid \notin DOMAIN ov
\* cls.overrides[tid] = {}
register_create(ov, tid) == Put(ov, tid, {})
\* cls.overrides[tid][k] = True
register_key(ov, tid, k) == [ov EXCEPT ![tid] = @ \cup {k}]
\* the keys recorded under an identity
Recorded(ov, tid) == IF tid \in DOMAIN ov THEN ov[tid] ELSE {}
IdleThread == [pc |-> "idle", keys |-> <<>>, registered |-> {}, nregs |-> 0]

Failures == {NoneV} \cup {DictV(m) : m \in Mappings} \cup {ExcV(id) : id \in ErrIds}
Prefixes == {NoneV, KeyV(""), KeyV("form.")}

(***************************************************************************)
(* The state machines.  Spec: one validator instance and the value its     *)
(* caller holds; each step is one call of a public operation on that       *)
(* value, or the caller taking the value a call returned as the value it   *)
(* holds.  SpecErrors: one error collection and the error objects; each    *)
(* step is one call of merge_errors on the collection.                     *)
(***************************************************************************)
VARIABLES
    self,      \* the attributes of the validator instance
    arg,       \* the value the caller holds
    op,        \* the operation called last ("new" before any call)
    result,    \* its outcome and the hooks it invoked; is_empty returns a bool
    taken,     \* how many returned values the caller has gone on with
    heap,      \* the attributes of each error object
    errors,    \* the error collection
    ecall,     \* the last call on the collection and its arguments
    ncalls,    \* how many calls were made on the collection
    filtered,  \* the collection handle_warnings returned last
    hcall,     \* the arguments of the last handle_warnings call
    stored,    \* history: for each key of errors, the prefix of the merge that stored it
    nres,      \* how many times the warnings of the collection were resolved
    overrides, \* ValidationWarningException.overrides
    threads    \* each thread: its position in register_overrides, the keys it has
               \* still to record, and (history) the keys and number of its calls

valVars == <<self, arg, op, result, taken>>
errVars == <<heap, errors, ecall, ncalls, filtered, hcall, stored, nres>>
regVars == <<overrides, threads>>
vars == <<self, arg, op, result, taken, heap, errors, ecall, ncalls, filtered, hcall, stored, nres,
          overrides, threads>>

NoCall == [op |-> "new", e |-> NoneV, prefix |-> NoneV]
NoHandle == [values |-> NoneV, on |-> ""]
\* overrides = {} and no thread in register_overrides
RegInit ==
    /\ overrides = <<>>
    /\ threads = [t \in Threads |-> IdleThread]
ValInit ==
    /\ op = "new"
    /\ arg = NoneV
    /\ result = [out |-> Return(NoneV), hooks |-> <<>>]
    /\ taken = 0
ErrInit ==
    /\ heap = [id \in ErrIds |-> ValidationException("", NoneV)]
    /\ errors = <<>>
    /\ ecall = NoCall
    /\ ncalls = 0
    /\ filtered = <<>>
    /\ hcall = NoHandle
    /\ stored = <<>>
    /\ nres = 0
    /\ RegInit

Init ==
    /\ self \in Validators
    /\ arg \in ArgsFor(self)
    /\ op = "new"
    /\ result = [out |-> Return(NoneV), hooks |-> <<>>]
    /\ taken = 0
    /\ ErrInit

IsEmpty ==
    /\ op' = "is_empty"
    /\ result' = [out |-> Return(BoolV(is_empty(self, arg))), hooks |-> <<>>]
    /\ UNCHANGED <<self, arg, taken>>
    /\ UNCHANGED <<errVars, regVars>>

\* a to_python that records on the instance that it has been called
ToPython_marking_instance ==
    /\ op' = "to_python"
    /\ result' = to_python(self, arg)
    /\ self' = [self EXCEPT !.truncate = TRUE]
    /\ UNCHANGED <<arg, taken>>
    /\ UNCHANGED <<errVars, regVars>>

ToPython ==
    /\ op' = "to_python"
    /\ result' = to_python(self, arg)
    /\ UNCHANGED <<self, arg, taken>>
    /\ UNCHANGED <<errVars, regVars>>

FromPython ==
    /\ op' = "from_python"
    /\ result' = from_python(self, arg)
    /\ UNCHANGED <<self, arg, taken>>
    /\ UNCHANGED <<errVars, regVars>>

\* the caller goes on with the value that to_python or from_python returned
TakeResult ==
    /\ op \in {"to_python", "from_python"}
    /\ IsReturn(result.out)
    /\ taken < MaxChain
    /\ taken' = taken + 1
    /\ arg' = result.out.v
    /\ op' = "new"
    /\ result' = [out |-> Return(NoneV), hooks |-> <<>>]
    /\ UNCHANGED self
    /\ UNCHANGED <<errVars, regVars>>

Next == IsEmpty \/ ToPython \/ FromPython \/ TakeResult

Spec == Init /\ [][Next]_vars

\* the errors a caller has caught: err1 and err2 raised by converters (err1
\* possibly constructed with field='a'), err3 raised by a nested form with
\* its error_dict
InitErrors ==
    /\ self = Boolean
    /\ ValInit
    /\ \E f \in {"", "a"}, d \in {NoneV} \cup {DictV(m) : m \in Mappings}, w \in BOOLEAN :
          heap = [id \in ErrIds |-> IF id = "err1" THEN create_warning("k1", f)
                                    ELSE IF id = "err3" THEN ValidationException("", d)
                                    ELSE IF w THEN create_warning("k2", "")
                                    ELSE ValidationException("", NoneV)]
    /\ errors = <<>>
    /\ ecall = NoCall
    /\ ncalls = 0
    /\ filtered = <<>>
    /\ hcall = NoHandle
    /\ stored = <<>>
    /\ nres = 0
    /\ RegInit

MergeErrors ==
    \E e \in Failures, prefix \in Prefixes :
        \E order \in Orders(Items(heap, e)) :
            LET r == merge_errors(errors, heap, e, prefix, order)
            IN  /\ ncalls < MaxCalls
                /\ ncalls' = ncalls + 1
                /\ errors' = r.errors
                /\ heap' = r.heap
                /\ ecall' = [op |-> "merge_errors", e |-> e, prefix |-> prefix]
                /\ stored' = [k \in DOMAIN r.errors |->
                                 IF k \in DOMAIN stored /\ k \notin Written(heap, e, prefix)
                                 THEN stored[k]
                                 ELSE (IF prefix = NoneV THEN "" ELSE prefix.s)]
                /\ UNCHANGED <<filtered, hcall, nres>>
                /\ UNCHANGED <<valVars, regVars>>

NextErrors == MergeErrors

SpecErrors == InitErrors /\ [][NextErrors]_vars

\* a collection a caller has built from the errors of a form: one
\* merge_errors of a dict {field: error} whose errors are warnings (err1,
\* and err2 or not) or plain errors
InitWarnings ==
    /\ self = Boolean
    /\ ValInit
    /\ \E m \in Mappings, prefix \in Prefixes, w \in BOOLEAN :
          \E order \in Orders(m) :
              LET hp == [id \in ErrIds |-> IF id = "err1" THEN create_warning("k1", "")
                                           ELSE IF id = "err2" /\ w THEN create_warning("k2", "")
                                           ELSE ValidationException("", NoneV)]
                  r == merge_errors(<<>>, hp, DictV(m), prefix, order)
              IN  /\ heap = r.heap
                  /\ errors = r.errors
                  /\ ecall = [op |-> "merge_errors", e |-> DictV(m), prefix |-> prefix]
                  /\ stored = [k \in DOMAIN r.errors |-> IF prefix = NoneV THEN "" ELSE prefix.s]
    /\ ncalls = 1
    /\ filtered = <<>>
    /\ hcall = NoHandle
    /\ nres = 0
    /\ RegInit

\* the caller resolves the warnings of the collection, or of the collection
\* the last resolution returned
HandleWarnings ==
    \E values \in AckValues, on \in {"errors", "filtered"} :
        LET coll == IF on = "errors" THEN errors ELSE filtered
            r == handle_warnings(heap, coll, values)
        IN  /\ nres < MaxResolves
            /\ on = "filtered" => nres > 0
            /\ nres' = nres + 1
            /\ filtered' = r.result
            /\ heap' = r.heap
            /\ ecall' = [op |-> "handle_warnings", e |-> NoneV, prefix |-> NoneV]
            /\ hcall' = [values |-> values, on |-> on]
            /\ UNCHANGED <<errors, stored, ncalls>>
            /\ UNCHANGED <<valVars, regVars>>

NextWarnings == HandleWarnings

SpecWarnings == InitWarnings /\ [][NextWarnings]_vars

InitRegistry ==
    /\ self = Boolean
    /\ ValInit
    /\ ErrInit

\* a thread calls register_overrides(keys): tid = thread.get_ident()
RegisterCall(t) ==
    /\ threads[t].pc = "idle"
    /\ threads[t].nregs < MaxRegs
    /\ \E keys \in KeyLists :
          threads' = [threads EXCEPT ![t] = [pc |-> "check", keys |-> keys,
                                             registered |-> @.registered \cup SeqRange(keys),
                                             nregs |-> @.nregs + 1]]
    /\ UNCHANGED overrides
    /\ UNCHANGED <<valVars, errVars>>

\* if tid not in cls.overrides:
RegisterCheck(t) ==
    /\ threads[t].pc = "check"
    /\ threads' = [threads EXCEPT ![t].pc =
                      IF register_absent(overrides, get_ident(t)) THEN "create" ELSE "loop"]
    /\ UNCHANGED overrides
    /\ UNCHANGED <<valVars, errVars>>

\* cls.overrides[tid] = {}
RegisterCreate(t) ==
    /\ threads[t].pc = "create"
    /\ overrides' = register_create(overrides, get_ident(t))
    /\ threads' = [threads EXCEPT ![t].pc = "loop"]
    /\ UNCHANGED <<valVars, errVars>>

\* for k in keys: cls.overrides[tid][k] = True
RegisterKey(t) ==
    /\ threads[t].pc = "loop"
    /\ threads[t].keys # <<>>
    /\ overrides' = register_key(overrides, get_ident(t), Head(threads[t].keys))
    /\ threads' = [threads EXCEPT ![t].keys = Tail(@)]
    /\ UNCHANGED <<valVars, errVars>>

\* the loop is exhausted: register_overrides returns
RegisterReturn(t) ==
    /\ threads[t].pc = "loop"
    /\ threads[t].keys = <<>>
    /\ threads' = [threads EXCEPT ![t].pc = "idle"]
    /\ UNCHANGED overrides
    /\ UNCHANGED <<valVars, errVars>>

NextRegistry ==
    \E t \in Threads :
        RegisterCall(t) \/ RegisterCheck(t) \/ RegisterCreate(t) \/ RegisterKey(t) \/ RegisterReturn(t)

SpecRegistry == InitRegistry /\ [][NextRegistry]_vars

(***************************************************************************)
(* Claims                                                                  *)
(***************************************************************************)
Called(o) == op = o
Returned == IsReturn(result.out)
Raised == IsRaise(result.out)
RetVal == result.out.v

LenOK(v) ==
    /\ self.min_length # NoneV => Len(v.s) >= self.min_length.n
    /\ self.max_length # NoneV => Len(v.s) <= self.max_length.n
BoundsOK(v) ==
    /\ self.min # NoneV => NumLE(self.min, v)
    /\ self.max # NoneV => NumLE(v, self.max)
\* C2: a non-null value returned by to_python satisfies every configured
\* constraint: min <= v <= max (Integer, Decimal, ObjectID, Type),
\* min_length <= len(v) <= max_length (Unicode and its subtypes, whatever
\* the truncate flag), v in choices (Enum, Type).
C2_ReturnedValueSatisfiesConstraints ==
    (Called("to_python") /\ Returned /\ RetVal # NoneV) =>
        /\ self.cls \in {"Integer", "Decimal", "ObjectID", "Type"} => BoundsOK(RetVal)
        /\ self.cls \in UnicodeClasses => LenOK(RetVal)
        /\ self.cls \in {"Enum", "Type"} => RetVal \in ChoiceValues(self.choices)

\* the types the render hook of a class recognizes
Recognized(cls, v) ==
    CASE cls \in {"Integer", "Type", "ObjectID", "Decimal", "Currency", "Percentage"} -> IsNum(v)
      [] cls = "PhoneNumber" -> IsStr(v)
      [] OTHER -> TRUE
\* C3: from_python never raises, whatever the converter and the value (the
\* empty text included), and returns a value of a type the converter does
\* not recognize unchanged.
C3_FromPythonNeverRaises ==
    Called("from_python") =>
        /\ Returned
        /\ ~Recognized(self.cls, arg) => RetVal = arg

\* C4: PhoneNumber.to_python returns the captured digit groups joined, with
\* a '+' in front exactly when the country-code group is not empty:
\* "223-456-7890" gives "2234567890", "1-223-456-7890" gives "+12234567890".
C4_PhonePlusIffCountryCode ==
    (Called("to_python") /\ self.cls = "PhoneNumber" /\ Returned /\ RetVal # NoneV) =>
        LET g == phoneRE_search(PyUnicode(arg)).groups
        IN  /\ RetVal.s = (IF g[1] # <<>> THEN <<"+">> ELSE <<>>) \o g[1] \o g[2] \o g[3] \o g[4]
            /\ arg = StrV(<<"2", "2", "3", "-", "4", "5", "6", "-", "7", "8", "9", "0">>) => RetVal = StrV(<<"2", "2", "3", "4", "5", "6", "7", "8", "9", "0">>)
            /\ arg = StrV(<<"1", "-", "2", "2", "3", "-", "4", "5", "6", "-", "7", "8", "9", "0">>) => RetVal = StrV(<<"+", "1", "2", "2", "3", "4", "5", "6", "7", "8", "9", "0">>)

RangeMin == {"Values must not be less than %d", "Value must not be less than %d"}
RangeMax == {"Value must not be greater than %d"}
RaisedRange(msgs) == Raised /\ result.out.exc = "ValidationException" /\ result.out.msg \in msgs
ZeroToTen == self.cls \in {"Integer", "Decimal"} /\ self.min = IntV(0) /\ self.max = IntV(10)
\* the argument is a number or the plain literal of one: [sign]digits[.digits]
IsNumberArg(v) ==
    \/ v.t \in {"int", "float"} /\ (v.t = "float" => v.kind = "fin")
    \/ /\ IsStr(v)
       /\ LET d == Unsigned(v.s)
              p == RFind(d, ".")
          IN  /\ d # <<>> /\ IsDigit(d[1])
              /\ \A i \in 1..Len(d) : IsDigit(d[i]) \/ i = p + 1
\* the number the argument denotes: a sign, an integral part and thousandths
ArgNum(v) ==
    IF v.t = "int" THEN [neg |-> v.n < 0, ip |-> IF v.n < 0 THEN -v.n ELSE v.n, fr |-> 0]
    ELSE LET f == IF IsStr(v) THEN PyFloatOfText(v.s).v ELSE v
         IN  [neg |-> f.neg, ip |-> f.ip, fr |-> f.fr * Pow10(3 - f.scale)]
Above10(x) == ~x.neg /\ (x.ip > 10 \/ (x.ip = 10 /\ x.fr > 0))
Below0(x) == x.neg /\ (x.ip > 0 \/ x.fr > 0)
\* the converted value the bounds are applied to: the integer part for
\* Integer, the value rounded to two digits for Decimal
Converted(v) ==
    LET x == ArgNum(v)
        lo == x.fr \div 10
        \* a tie is a binary fraction (.125, .375, ...) and goes to the even digit
        c == IF x.fr % 10 = 5 THEN (IF lo % 2 = 0 THEN lo ELSE lo + 1) ELSE (x.fr + 5) \div 10
    IN  IF self.cls = "Integer" THEN [x EXCEPT !.fr = 0]
        ELSE IF c = 100 THEN [x EXCEPT !.ip = x.ip + 1, !.fr = 0]
        ELSE [x EXCEPT !.fr = 10 * c]
\* the literal is one int() accepts
IntegerLiteral(v) == ~IsStr(v) \/ RFind(v.s, ".") < 0

\* C5 (as claimed): with min=0 and max=10, Integer and Decimal accept
\* exactly the values 0 <= v <= 10 and raise a range error for -1 and for
\* every value above 10, values only just above 10 included.
C5_BoundsOnInput ==
    (Called("to_python") /\ ZeroToTen /\ IsNumberArg(arg)
        /\ (self.cls = "Integer" => IntegerLiteral(arg))) =>
        LET x == ArgNum(arg)
        IN  /\ Returned <=> (~Below0(x) /\ ~Above10(x))
            /\ Above10(x) => RaisedRange(RangeMax)
            /\ (x.neg /\ x.ip = 1 /\ x.fr = 0) => RaisedRange(RangeMin)

\* C5 (amended): with min=0 and max=10 the bounds are inclusive and apply to
\* the converted value (the integer int() gives for Integer, the value
\* rounded to `scale` digits for Decimal): to_python returns it exactly when
\* it is in 0..10, raises a range error when it is below 0 or above 10, and
\* so accepts as 10 an input just above 10 that converts to 10.
C5_BoundsOnConvertedValue ==
    (Called("to_python") /\ ZeroToTen /\ IsNumberArg(arg)
        /\ (self.cls = "Integer" => IntegerLiteral(arg))) =>
        LET c == Converted(arg)
        IN  /\ Returned <=> (~Below0(c) /\ ~Above10(c))
            /\ Returned => (ArgNum(RetVal).ip = c.ip /\ ArgNum(RetVal).fr = c.fr)
            /\ Above10(c) <=> RaisedRange(RangeMax)
            /\ Below0(c) <=> RaisedRange(RangeMin)
\* Decimal(min=0, max=10) has returned 10.00 for "10.001"
C5_Witness ==
    /\ Called("to_python") /\ ZeroToTen /\ self.cls = "Decimal"
    /\ arg = StrV(<<"1", "0", ".", "0", "0", "1">>) /\ result.out = Return(Dec(FALSE, 10, 0, 2))

\* the part of a text before its first '.', and the part after it
BeforePoint(s) == IF \E i \in 1..Len(s) : s[i] = "."
                  THEN SubSeq(s, 1, (CHOOSE i \in 1..Len(s) : s[i] = "." /\ \A j \in 1..(i - 1) : s[j] # ".") - 1)
                  ELSE s
AfterPoint(s) == SubSeq(s, Len(BeforePoint(s)) + 2, Len(s))
\* the signs and '$' a currency text may start with
CurrencyPrefixes == {s1 \o d \o s2 : s1 \in SignTexts, d \in {<<>>, <<"$">>}, s2 \in SignTexts}
\* digits in which every ',' is followed by exactly three digits
WellGrouped(d) ==
    /\ d # <<>>
    /\ \A i \in 1..Len(d) :
          \/ IsDigit(d[i])
          \/ /\ d[i] = "," /\ DigitsAt(d, i + 1, 3)
             /\ (i + 4 > Len(d) \/ d[i + 4] = ",")
\* the text has the form [sign1]['$'][sign2]digits[.cents]
IsCurrencyForm(s) ==
    LET k == FirstNumChar(s, 0)
        body == From(s, k)
        cents == AfterPoint(body)
    IN  /\ Slice(s, 0, k) \in CurrencyPrefixes
        /\ WellGrouped(BeforePoint(body))
        /\ (body # BeforePoint(body) => (Len(cents) \in {1, 2} /\ AllDigits(cents)))
\* the sign nearest the digits is the last sign character of the text
LastSignIsMinus(s) ==
    LET signs == SelectSeq(s, LAMBDA c : c \in {"+", "-"})
    IN  signs # <<>> /\ signs[Len(signs)] = "-"

\* C6: for a text of the form [sign1]['$'][sign2]digits[.cents],
\* Currency.to_python returns the value whose sign is sign2 when present,
\* otherwise sign1, otherwise positive, and whose magnitude is the digits
\* without separators plus the cents (.00 when omitted): "+$-1,000.3" gives
\* -1000.30 and "-$+1,000.3" gives 1000.30.
C6_CurrencySign ==
    (Called("to_python") /\ self.cls = "Currency" /\ self.min = NoneV /\ self.max = NoneV
        /\ IsStr(arg) /\ IsCurrencyForm(arg.s)) =>
        LET body == From(arg.s, FirstNumChar(arg.s, 0))
            cents == AfterPoint(body)
        IN  /\ Returned /\ RetVal.t = "dec" /\ RetVal.kind = "fin"
            /\ RetVal.neg = LastSignIsMinus(arg.s)
            /\ RetVal.ip = StrToNat(Remove(BeforePoint(body), ","))
            /\ RetVal.fr * Pow10(3 - RetVal.scale) = FracMil(cents)
            /\ arg = StrV(<<"+", "$", "-", "1", ",", "0", "0", "0", ".", "3">>) => (RetVal.neg /\ NumEq(RetVal, Dec(TRUE, 1000, 30, 2)))
            /\ arg = StrV(<<"-", "$", "+", "1", ",", "0", "0", "0", ".", "3">>) => (~RetVal.neg /\ NumEq(RetVal, Dec(FALSE, 1000, 30, 2)))
\* Currency has parsed "+$-1,000.3" as -1000.30
C6_Witness ==
    /\ Called("to_python") /\ self.cls = "Currency"
    /\ arg = StrV(<<"+", "$", "-", "1", ",", "0", "0", "0", ".", "3">>) /\ result.out = Return(Dec(TRUE, 1000, 30, 2))

\* the canonical display form: ['$' for Currency][-]grouped digits[.digits]
IsDisplayForm(cls, s) ==
    LET u == IF cls = "Currency" /\ s # <<>> /\ s[1] = "$" THEN Tail(s) ELSE s
        body == IF u # <<>> /\ u[1] = "-" THEN Tail(u) ELSE u
    IN  /\ cls = "Currency" => (s # <<>> /\ s[1] = "$")
        /\ WellGrouped(BeforePoint(body)) /\ IsDigit(body[1])
        /\ (cls = "Integer" => body = BeforePoint(body))
        /\ (cls # "Integer" => (AfterPoint(body) # <<>> /\ AllDigits(AfterPoint(body))))
\* C7: for every text that to_python of Integer, Decimal or Currency accepts
\* with value v, from_python(v) is the canonical display form and parsing it
\* again returns v: to_python(from_python(v)) = v.
C7_NumericRoundTrip ==
    (Called("to_python") /\ self.cls \in {"Integer", "Decimal", "Currency"}
        /\ IsStr(arg) /\ Returned /\ RetVal # NoneV) =>
        LET d == from_python(self, RetVal).out
        IN  /\ IsReturn(d) /\ IsStr(d.v) /\ IsDisplayForm(self.cls, d.v.s)
            /\ LET w == to_python(self, d.v).out
               IN  IsReturn(w) /\ w.v # NoneV /\ NumEq(w.v, RetVal)

\* the last ten characters as (AAA) EEE-SSSS
TenDigitForm(s) ==
    LET n == Len(s) - 10
    IN  <<"(", s[n + 1], s[n + 2], s[n + 3], ")", " ", s[n + 4], s[n + 5], s[n + 6], "-",
          s[n + 7], s[n + 8], s[n + 9], s[n + 10]>>
\* C8: PhoneNumber.from_python of a text that starts with '+' followed by a
\* prefix and 10 digits is the first (length - 10) characters, a space and
\* the last 10 digits as "(AAA) EEE-SSSS"; a text without '+' is reformatted
\* as "(AAA) EEE-SSSS" exactly when it has 10 characters and is otherwise
\* returned unchanged.
C8_PhoneRender ==
    (Called("from_python") /\ self.cls = "PhoneNumber" /\ IsStr(arg)) =>
        IF arg.s # <<>> /\ arg.s[1] = "+"
        THEN Len(arg.s) >= 12 =>
                result.out = Return(StrV(SubSeq(arg.s, 1, Len(arg.s) - 10) \o <<" ">> \o TenDigitForm(arg.s)))
        ELSE IF Len(arg.s) = 10 THEN result.out = Return(StrV(TenDigitForm(arg.s)))
        ELSE result.out = Return(arg)

\* digits with a ',' exactly at the places a multiple of three digits from
\* the right end, none of them first
GroupedByThree(g, digits) ==
    /\ Remove(g, ",") = digits
    /\ g # <<>> /\ g[1] # ","
    /\ \A i \in 1..Len(g) : (g[i] = ",") <=> ((Len(g) - i + 1) % 4 = 0)
\* C9: Integer.from_python(n) is the optional sign and the decimal digits of
\* n with a ',' between every group of three digits counted from the right
\* and no leading or trailing separator; Decimal.from_python with scale 2
\* groups only the integral part and keeps exactly two fractional digits
\* after the '.' (0 renders as "0.00").
C9_ThousandsGrouping ==
    /\ (Called("from_python") /\ self.cls = "Integer" /\ arg.t = "int") =>
          /\ Returned /\ IsStr(RetVal)
          /\ (arg.n < 0) = (RetVal.s[1] = "-")
          /\ GroupedByThree(Unsigned(RetVal.s), NatToStr(IF arg.n < 0 THEN -arg.n ELSE arg.n))
          /\ arg.n = 1000000 => RetVal.s = <<"1", ",", "0", "0", "0", ",", "0", "0", "0">>
    /\ (Called("from_python") /\ self.cls = "Decimal" /\ self.scale = 2
          /\ (arg.t = "int" \/ (arg.t = "dec" /\ arg.kind = "fin" /\ arg.scale = 2))) =>
          LET x == ArgNum(arg)
          IN  /\ Returned /\ IsStr(RetVal)
              /\ x.neg = (RetVal.s[1] = "-")
              /\ GroupedByThree(BeforePoint(Unsigned(RetVal.s)), NatToStr(x.ip))
              /\ Unsigned(RetVal.s) = BeforePoint(Unsigned(RetVal.s)) \o <<".">> \o PadNat(x.fr \div 10, 2)
              /\ arg = IntV(0) => RetVal.s = <<"0", ".", "0", "0">>
\* Integer has rendered 1000000 as "1,000,000"
C9_Witness ==
    /\ Called("from_python") /\ self.cls = "Integer" /\ arg = IntV(1000000)
    /\ result.out = Return(StrV(<<"1", ",", "0", "0", "0", ",", "0", "0", "0">>))

\* the prefix a call uses: '' for None
PrefixOf(c) == IF c.prefix = NoneV THEN "" ELSE c.prefix.s
\* C10: merge_errors(errors, e, prefix) with e a plain mapping or an error
\* that carries a nested error collection stores every entry (k, v) of the
\* failure under the key prefix + k, replacing what that key held, so that a
\* key holds one error, and leaves the entry of every other key unchanged.
C10_MergeStoresEntries ==
    [][(ecall'.op = "merge_errors" /\ ncalls' = ncalls + 1) =>
          LET m == Items(heap, ecall'.e)
              p == PrefixOf(ecall')
              new == {p \o k : k \in DOMAIN m}
          IN  /\ \A k \in DOMAIN m : (p \o k) \in DOMAIN errors' /\ errors'[p \o k] = m[k]
              /\ (m # <<>> \/ ecall'.e.t # "exc") =>
                    /\ DOMAIN errors' = (DOMAIN errors) \cup new
                    /\ \A key \in (DOMAIN errors) \ new : errors'[key] = errors[key]]_vars
\* {"a": err1, "b": err2} was merged with prefix "form." into a collection
\* that held other keys: the collection holds form.a and form.b
C10_Witness ==
    /\ ecall = [op |-> "merge_errors", e |-> DictV([k \in Fields |-> IF k = "a" THEN "err1" ELSE "err2"]),
                prefix |-> KeyV("form.")]
    /\ DOMAIN errors = {"a", "form.a", "form.b"}
    /\ errors["form.a"] = "err1" /\ errors["form.b"] = "err2" /\ errors["a"] = "err2"

\* the entries of a collection whose warning key values does not acknowledge
Unacknowledged(hp, coll, values) ==
    LET keep == {k \in DOMAIN coll : ~Acknowledged(values, hp[coll[k]].warning_key)}
    IN  [k \in keep |-> coll[k]]
\* C11: handle_warnings(errors, values) returns exactly the entries of errors
\* whose warning key is not present with a truthy value in values['om_ignore']
\* (every entry when values has no 'om_ignore'), each under its key and with
\* its error; a further call with the same values, on the original or on the
\* returned collection, returns the same collection.
C11_HandleWarningsFilters ==
    [][nres' = nres + 1 =>
          LET coll == IF hcall'.on = "errors" THEN errors ELSE filtered
          IN  /\ filtered' = Unacknowledged(heap, coll, hcall'.values)
              /\ (/\ ecall.op = "handle_warnings"
                  /\ hcall'.values = hcall.values
                  /\ hcall'.on = "filtered" \/ hcall.on = "errors")
                    => filtered' = filtered]_vars
\* with k1 acknowledged, a second resolution was made on the collection the
\* first returned: the warning with key k1 is absent, the other error is kept
C11_Witness ==
    /\ ecall.op = "handle_warnings" /\ hcall.on = "filtered"
    /\ hcall.values = DictV([k \in {"k1"} |-> TRUE])
    /\ nres = 2
    /\ \E k \in DOMAIN errors : errors[k] = "err1"
    /\ \E k \in DOMAIN filtered : filtered[k] = "err2"
    /\ \A k \in DOMAIN filtered : filtered[k] # "err1"

C16_FieldMatchesKey ==
    \A K \in DOMAIN errors : K = stored[K] \o heap[errors[K]].field

IsInternalHyphenLabel(s) ==
    /\ Len(s) \in 1..63
    /\ \A i \in 1..Len(s) : s[i] \in Letters \cup DigitSet \cup {"-"}
    /\ s[1] # "-" /\ s[Len(s)] # "-"
\* the domain after its first n labels: more 'label.' segments, then 2+ letters
RECURSIVE LabelsThenTopLevel(_, _)
LabelsThenTopLevel(s, n) ==
    IF \E i \in 1..Len(s) : s[i] = "."
    THEN LET i == CHOOSE i \in 1..Len(s) : s[i] = "." /\ \A j \in 1..(i - 1) : s[j] # "."
         IN  IsInternalHyphenLabel(SubSeq(s, 1, i - 1)) /\ LabelsThenTopLevel(SubSeq(s, i + 1, Len(s)), n + 1)
    ELSE n >= 1 /\ Len(s) >= 2 /\ \A i \in 1..Len(s) : s[i] \in Letters
\* only allow-listed characters, no '.' at either end, no '..'
WellFormedLocal(s) ==
    /\ \A i \in 1..Len(s) : s[i] \in local_part_constraints
    /\ s # <<>> => (s[1] # "." /\ s[Len(s)] # ".")
    /\ \A i \in 1..(Len(s) - 1) : ~(s[i] = "." /\ s[i + 1] = ".")
UsernameMessage == "The username portion of the email address is invalid (the portion before the @: %s)"
DomainMessage == "The domain portion of the email address is invalid (the portion after the @: %s)"
\* C14: Email.to_python accepts a non-empty text (trimmed, and within
\* max_length) exactly when it splits at its first '@' into a local part of
\* allow-listed characters that neither starts nor ends with '.' nor holds
\* '..', and a domain of one or more 'label.' segments (1-63 characters,
\* alphanumeric, hyphens only inside) followed by 2+ letters; a malformed
\* local part is rejected with the username message, a well-formed local
\* part with a malformed domain with the domain message.
C14_EmailGrammar ==
    (Called("to_python") /\ self.cls = "Email" /\ IsStr(arg) /\ ~is_empty(self, arg)) =>
        LET v == Strip(arg.s)
        IN  IF \A i \in 1..Len(v) : v[i] # "@" THEN Raised
            ELSE LET at == CHOOSE i \in 1..Len(v) : v[i] = "@" /\ \A j \in 1..(i - 1) : v[j] # "@"
                     local == SubSeq(v, 1, at - 1)
                     domain == SubSeq(v, at + 1, Len(v))
                 IN  /\ ~WellFormedLocal(local)
                        => result.out = Raise("ValidationException", UsernameMessage)
                     /\ (WellFormedLocal(local) /\ ~LabelsThenTopLevel(domain, 0))
                        => result.out = Raise("ValidationException", DomainMessage)
                     /\ (WellFormedLocal(local) /\ LabelsThenTopLevel(domain, 0) /\ Len(v) <= self.max_length.n)
                        => result.out = Return(StrV(v))

\* the ways of reading a text as hour digits, ':' or not, two minute digits,
\* seconds (absent, "SS" or ":SS") and a marker (absent, or AM or PM in any
\* case after any whitespace): the lengths of the hour, of the ':' and of the
\* seconds part
TimeShapes(s) ==
    {d \in [hl : {1, 2}, c : {0, 1}, sl : {0, 2, 3}] :
        LET m0 == d.hl + d.c
            e == m0 + 2 + d.sl
            rest == SubSeq(s, e + 1, Len(s))
        IN  /\ Len(s) >= e
            /\ AllDigits(SubSeq(s, 1, d.hl))
            /\ d.c = 1 => s[d.hl + 1] = ":"
            /\ AllDigits(SubSeq(s, m0 + 1, m0 + 2))
            /\ d.sl = 3 => s[m0 + 3] = ":"
            /\ AllDigits(SubSeq(s, e - (IF d.sl = 0 THEN 0 ELSE 2) + 1, e))
            /\ rest = <<>> \/ Lower(LStrip(rest)) \in {<<"a", "m">>, <<"p", "m">>}}
\* "H:MM", then ":SS" when there are seconds, then " " and the marker
TimeCanonical(s, d) ==
    LET m0 == d.hl + d.c
        e == m0 + 2 + d.sl
        rest == SubSeq(s, e + 1, Len(s))
    IN  SubSeq(s, 1, d.hl) \o <<":">> \o SubSeq(s, m0 + 1, m0 + 2)
        \o (IF d.sl = 0 THEN <<>> ELSE <<":">> \o SubSeq(s, e - 1, e))
        \o (IF rest = <<>> THEN <<>> ELSE <<" ">> \o LStrip(rest))
\* C15: a text of 1-2 hour digits, an optional ':', 2 minute digits, optional
\* seconds (2 digits, with or without ':' before them) and an optional AM or
\* PM marker (any case, with or without whitespace before it) passes the
\* shape check of Time.to_python and is handed to the parser as "H:MM", then
\* ":SS" when there are seconds, then " " and the marker when there is one;
\* every other text is rejected with the invalid-time-format error.
C15_TimeShape ==
    (Called("to_python") /\ self.cls = "Time" /\ IsStr(arg) /\ ~is_empty(self, arg)) =>
        IF TimeShapes(arg.s) = {}
        THEN result.out = Raise("ValidationException", "Invalid time format, please use XX:XX")
        ELSE \A d \in TimeShapes(arg.s) :
                /\ time_re_match(arg.s).ok
                /\ Time_normalized(time_re_match(arg.s)) = TimeCanonical(arg.s, d)
                /\ result.out = parse_time(TimeCanonical(arg.s, d))
====
